---- MODULE Spec2Model ----
(***************************************************************************)
(* Model of mediaflow_proxy/routes/playlist_builder.py: the M3U line       *)
(* rewriter (rewrite_m3u_links_streaming), the playlist downloader         *)
(* (async_download_m3u_playlist) and the combined-playlist generator       *)
(* (async_generate_combined_playlist).                                     *)
(*                                                                         *)
(* Text is modelled structurally.  A raw line is a record                  *)
(*   [c |-> content, pad |-> surrounding blanks?, nl |-> ends with "\n"?]  *)
(* where the content is a record tagged by t.  An emitted line is a record *)
(*   [route, body, quoted, params, pad, nl]                                *)
(* so that "emitted verbatim" is an equation that a rewrite can falsify.   *)
(***************************************************************************)
EXTENDS Integers, Sequences, FiniteSets, TLC

VARIABLES
    \* ---- one run of rewrite_m3u_links_streaming ----
    m3u_lines,            \* the lines handed to the generator
    api_password,         \* "" models None / empty (falsy)
    rpos,                 \* number of lines the for-loop has consumed
    current_ext_headers,  \* the dict of pending headers, in insertion order
    yielded,              \* the lines yielded so far
    \* ---- one run of async_generate_combined_playlist ----
    playlist_definitions, \* the request's definitions
    pc,                   \* position of the generator
    task,                 \* task[i]: state of the i-th download coroutine
    lines,                \* lines[i]: the local list of the i-th download
    finished,             \* indices of the downloads in completion order
    results,              \* what asyncio.gather returned
    idx,                  \* loop index of the merge loop
    handled,              \* first_playlist_header_handled
    out,                  \* the lines the generator has yielded
    \* ---- one call of proxy_handler ----
    d,                    \* the query parameter d of the request
    hpc,                  \* position of the handler
    vidx,                 \* definitions validated so far
    base_url,             \* the base URL given to the rewriter
    status                \* HTTP status of the response, 0: none yet

rvars == <<m3u_lines, api_password, rpos, current_ext_headers, yielded>>
gvars == <<playlist_definitions, pc, task, lines, finished, results, idx, handled, out>>
hvars == <<d, hpc, vidx, base_url, status>>
vars == <<m3u_lines, api_password, rpos, current_ext_headers, yielded,
          playlist_definitions, pc, task, lines, finished, results, idx, handled, out,
          d, hpc, vidx, base_url, status>>

----------------------------------------------------------------------------
(* Bounds *)

\* longest playlist handed to one rewriter run
MaxLines == 3
\* most source definitions in one request
MaxSources == 2
\* longest playlist a remote source serves
MaxRemoteLines == 1
\* longest list of lines handed to the merge loop
MaxMergeLines == 2

----------------------------------------------------------------------------
(* Text universe *)

\* f"{original_scheme}://{request.url.netloc}": the request-derived base URL
\* a piece of request text: [scheme "://"] host [":" pw] path, parts that
\* are "" are absent
UrlText(scheme, host, pw, path) == [scheme |-> scheme, host |-> host, pw |-> pw, path |-> path]

NoText == UrlText("", "", "", "")

\* f"{original_scheme}://{request.url.netloc}"
DefaultBaseUrl == UrlText("http", "mfp", "", "")

\* the substrings the classifier looks for that occur in an atomic token
MarkersIn(tok) ==
    CASE tok = "pluto.tv"    -> {"pluto.tv"}
      [] tok = "vavoo.to"    -> {"vavoo.to"}
      [] tok = "vixsrc.to"   -> {"vixsrc.to"}
      [] tok = "/a.m3u8"     -> {".m3u8"}
      [] tok = "/a.mpd"      -> {".mpd"}
      [] tok = "/a.php"      -> {".php"}
      [] tok = "b.m3u8"      -> {".m3u8"}
      [] OTHER               -> {}

Pair(k, v) == [k |-> k, v |-> v]

Url(host, path, query) == [t |-> "url", host |-> host, path |-> path, query |-> query]

\* needle in logical_line, for a line that is an absolute http(s) URL
Contains(c, needle) ==
    \/ needle \in MarkersIn(c.host)
    \/ needle \in MarkersIn(c.path)
    \/ \E i \in 1..Len(c.query) : needle \in (MarkersIn(c.query[i].k) \cup MarkersIn(c.query[i].v))

Raw(c, pad, nl) == [c |-> c, pad |-> pad, nl |-> nl]

----------------------------------------------------------------------------
(* Line contents *)

Marker  == [t |-> "marker"]     \* #EXTM3U
Comment == [t |-> "comment"]    \* any other line starting with '#'
Blank   == [t |-> "blank"]      \* nothing left after strip()
Text    == [t |-> "text"]       \* non-empty, no '#', no http:// or https://

\* #EXTVLCOPT:<option_str>.  eq: option_str contains '='; key: the stripped
\* text before the first '='; colon: the stripped text after it (value_vlc)
\* contains ':'; hname: value_vlc before its first ':' (stripped); val: the
\* text after that ':' when colon, else the whole of value_vlc (stripped).
Vlc(eq, key, colon, hname, val) ==
    [t |-> "vlc", eq |-> eq, key |-> key, colon |-> colon, hname |-> hname, val |-> val]

\* #EXTHTTP:<json_str>.  json: what json.loads makes of json_str:
\* "flat" a dict of str to str, "nonflat" a dict with a non-string value,
\* "list" a non-dict value, "invalid" a JSONDecodeError; obj: the dict.
ExtHttp(json, obj) == [t |-> "exthttp", json |-> json, obj |-> obj]

\* key_vlc.startswith('http-') and key_vlc[len('http-'):]
HasHttpPrefix(key) == key \in {"http-header", "http-A", "http-B"}
StripHttp(key) ==
    CASE key = "http-header" -> "header"
      [] key = "http-A"      -> "A"
      [] key = "http-B"      -> "B"
      [] OTHER               -> key

----------------------------------------------------------------------------
(* dict operations; a dict is a sequence of pairs with distinct keys, in   *)
(* insertion order                                                         *)

HasKey(h, k) == \E i \in 1..Len(h) : h[i].k = k

\* h[k] = v
Upsert(h, k, v) ==
    IF HasKey(h, k)
    THEN [i \in 1..Len(h) |-> IF h[i].k = k THEN Pair(k, v) ELSE h[i]]
    ELSE Append(h, Pair(k, v))

AsSet(h) == {h[i] : i \in 1..Len(h)}

----------------------------------------------------------------------------
(* rewrite_m3u_links_streaming: the directive branches *)

\* the #EXTVLCOPT branch: the dict after the directive
VlcOptHeaders(h, c) ==
    IF ~c.eq THEN h
    ELSE IF c.key = "http-header" /\ c.colon THEN Upsert(h, c.hname, c.val)
    ELSE IF HasHttpPrefix(c.key) THEN Upsert(h, StripHttp(c.key), c.val)
    ELSE h

RECURSIVE UpsertAll(_, _)
UpsertAll(h, obj) ==
    IF obj = << >> THEN h ELSE UpsertAll(Upsert(h, Head(obj).k, Head(obj).v), Tail(obj))

\* an #EXTHTTP branch that merges the object into the pending dict
ExtHttpHeadersMerged(h, c) ==
    IF c.json = "flat" THEN UpsertAll(h, c.obj) ELSE << >>

\* the #EXTHTTP branch: the dict after the directive
ExtHttpHeaders(h, c) ==
    IF c.json = "flat" THEN c.obj ELSE << >>

\* logical_line and not startswith('#') and ('http://' in .. or 'https://' in ..)
IsPlayable(c) == c.t = "url"
IsHeaderTag(c) == c.t \in {"vlc", "exthttp"}

----------------------------------------------------------------------------
(* urllib.parse.parse_qs / urlencode(doseq=True), on a query that is a     *)
(* sequence of name=value pairs (v = "" models a blank or missing value)  *)

RECURSIVE ParseQsFrom(_, _, _)
ParseQsFrom(query, i, acc) ==
    IF i > Len(query) THEN acc
    ELSE LET p == query[i] IN
         IF p.v = "" THEN ParseQsFrom(query, i + 1, acc)
         ELSE IF \E j \in 1..Len(acc) : acc[j].k = p.k
              THEN ParseQsFrom(query, i + 1,
                      [j \in 1..Len(acc) |->
                          IF acc[j].k = p.k
                          THEN [k |-> p.k, vs |-> Append(acc[j].vs, p.v)]
                          ELSE acc[j]])
              ELSE ParseQsFrom(query, i + 1, Append(acc, [k |-> p.k, vs |-> <<p.v>>]))

\* parse_qs(parsed_url.query): name -> list of values, names in first-seen order
ParseQs(query) == ParseQsFrom(query, 1, << >>)

\* query_params.get(name, [None])[0], None modelled as ""
GetFirst(qp, name) ==
    IF \E j \in 1..Len(qp) : qp[j].k = name
    THEN LET j == CHOOSE j \in 1..Len(qp) : qp[j].k = name IN qp[j].vs[1]
    ELSE ""

\* a filter that forgets to remove key
CleanParamsKeepingKey(qp) == SelectSeq(qp, LAMBDA e : e.k \notin {"key_id"})

\* {k: v for k, v in query_params.items() if k not in ['key_id', 'key']}
CleanParams(qp) == SelectSeq(qp, LAMBDA e : e.k \notin {"key_id", "key"})

RECURSIVE UrlEncode(_)
\* urlencode(clean_params, doseq=True)
UrlEncode(qp) ==
    IF qp = << >> THEN << >>
    ELSE [j \in 1..Len(Head(qp).vs) |-> Pair(Head(qp).k, Head(qp).vs[j])] \o UrlEncode(Tail(qp))

----------------------------------------------------------------------------
(* rewrite_m3u_links_streaming: the playable-entry branch *)

Param(kind, name, value, quoted) ==
    [kind |-> kind, name |-> name, value |-> value, quoted |-> quoted]

\* an emitted line: route "" is no proxy route; body is the content the
\* line carries (after ?d= when route is not ""); quoted: body went through
\* urllib.parse.quote; params: the &name=value parts appended, in order
Emitted(route, body, quoted, params, pad, nl) ==
    [route |-> route, body |-> body, quoted |-> quoted, params |-> params,
     pad |-> pad, nl |-> nl]

\* a pass-through that yields the stripped line with a fresh terminator
VerbatimStripped(raw) == Emitted("", raw.c, FALSE, << >>, FALSE, TRUE)

\* yield line_with_newline
Verbatim(raw) == Emitted("", raw.c, FALSE, << >>, raw.pad, raw.nl)

\* the .mpd branch
MpdRewrite(c) ==
    LET query_params == ParseQs(c.query)
        key_id       == GetFirst(query_params, "key_id")
        key          == GetFirst(query_params, "key")
        clean_url    == Url(c.host, c.path, UrlEncode(CleanParams(query_params)))
    IN  [route |-> "/proxy/mpd/manifest.m3u8", body |-> clean_url, quoted |-> TRUE,
         params |-> (IF key_id # "" THEN <<Param("key_id", "key_id", key_id, FALSE)>> ELSE << >>)
                 \o (IF key # "" THEN <<Param("key", "key", key, FALSE)>> ELSE << >>)]

Hls(c) == [route |-> "/proxy/hls/manifest.m3u8", body |-> c, quoted |-> TRUE, params |-> << >>]

\* an if/elif chain that tests .mpd before .m3u8
RewriteUrlMpdFirst(c) ==
    IF Contains(c, "pluto.tv") THEN [route |-> "", body |-> c, quoted |-> FALSE, params |-> << >>]
    ELSE IF Contains(c, "vavoo.to") THEN Hls(c)
    ELSE IF Contains(c, "vixsrc.to")
         THEN [route |-> "/extractor/video", body |-> c, quoted |-> TRUE,
               params |-> <<Param("fixed", "max_res", "true", FALSE),
                            Param("fixed", "no_proxy", "true", FALSE)>>]
    ELSE IF Contains(c, ".mpd") THEN MpdRewrite(c)
    ELSE Hls(c)

\* the if/elif chain that picks the route of a playable line; the route
\* paths are relative to base_url
RewriteUrl(c) ==
    IF Contains(c, "pluto.tv") THEN [route |-> "", body |-> c, quoted |-> FALSE, params |-> << >>]
    ELSE IF Contains(c, "vavoo.to") THEN Hls(c)
    ELSE IF Contains(c, "vixsrc.to")
         THEN [route |-> "/extractor/video", body |-> c, quoted |-> TRUE,
               params |-> <<Param("fixed", "max_res", "true", FALSE),
                            Param("fixed", "no_proxy", "true", FALSE)>>]
    ELSE IF Contains(c, ".m3u8") THEN Hls(c)
    ELSE IF Contains(c, ".mpd") THEN MpdRewrite(c)
    ELSE IF Contains(c, ".php") THEN Hls(c)
    ELSE Hls(c)

\* "&h_{quote(key)}={quote(value)}" for each pending header
HeaderParams(h) == [i \in 1..Len(h) |-> Param("h_", h[i].k, h[i].v, TRUE)]

\* an "Apply collected headers" block that does not clear the dict
HeadersKeptAfterEntry(h) == h

\* current_ext_headers after the "Apply collected headers" block
HeadersAfterEntry(h) == << >>

\* "&api_password=..." when api_password is truthy
PasswordParams(pw) == IF pw # "" THEN <<Param("api_password", "api_password", pw, FALSE)>> ELSE << >>

\* the line yielded for a playable entry
RewriteEntry(c, h, pw) ==
    LET p == RewriteUrl(c) IN
    Emitted(p.route, p.body, p.quoted,
            p.params \o HeaderParams(h) \o PasswordParams(pw), FALSE, TRUE)

\* one iteration of the for-loop: the line yielded and the dict afterwards
ProcessLine(raw, h, pw) ==
    IF raw.c.t = "vlc" THEN [line |-> Verbatim(raw), headers |-> VlcOptHeaders(h, raw.c)]
    ELSE IF raw.c.t = "exthttp" THEN [line |-> Verbatim(raw), headers |-> ExtHttpHeaders(h, raw.c)]
    ELSE IF IsPlayable(raw.c)
         THEN [line |-> RewriteEntry(raw.c, h, pw),
               headers |-> IF h # << >> THEN HeadersAfterEntry(h) ELSE h]
    ELSE [line |-> Verbatim(raw), headers |-> h]

----------------------------------------------------------------------------
(* Inputs of the rewriter *)

Passwords == {"", "pw"}

DirectiveLines ==
    { Raw(Vlc(TRUE, "http-header", TRUE, "B", "2"), FALSE, TRUE),       \* #EXTVLCOPT:http-header=B: 2
      Raw(Vlc(TRUE, "http-A", FALSE, "", "2"), FALSE, TRUE),            \* #EXTVLCOPT:http-A=2
      Raw(Vlc(TRUE, "http-header", FALSE, "", "x"), FALSE, TRUE),       \* #EXTVLCOPT:http-header=x
      Raw(Vlc(TRUE, "network-caching", FALSE, "", "1000"), FALSE, TRUE),\* #EXTVLCOPT:network-caching=1000
      Raw(Vlc(FALSE, "", FALSE, "", ""), FALSE, TRUE),                  \* #EXTVLCOPT:garbage
      Raw(ExtHttp("flat", <<Pair("A", "1")>>), FALSE, TRUE),            \* #EXTHTTP:{"A":"1"}
      Raw(ExtHttp("invalid", << >>), FALSE, TRUE),                      \* #EXTHTTP:{oops
      Raw(ExtHttp("nonflat", << >>), FALSE, TRUE) }                     \* #EXTHTTP:{"A":1}

PlayableLines ==
    { Raw(Url("h", "/a", << >>), FALSE, TRUE),
      Raw(Url("pluto.tv", "/a.m3u8", << >>), FALSE, TRUE),
      Raw(Url("vavoo.to", "/a", << >>), TRUE, TRUE),
      Raw(Url("vixsrc.to", "/a.mpd", << >>), FALSE, TRUE),
      Raw(Url("h", "/a.mpd", <<Pair("u", "b.m3u8"), Pair("key", "cc")>>), FALSE, TRUE),
      Raw(Url("h", "/a.mpd", <<Pair("key_id", "aa"), Pair("foo", "1"),
                               Pair("key_id", "bb"), Pair("key", "cc")>>), FALSE, TRUE),
      Raw(Url("h", "/a.mpd", <<Pair("foo", "1"), Pair("key_id", ""),
                               Pair("bar", "2"), Pair("foo", "3")>>), FALSE, TRUE),
      Raw(Url("h", "/a.php", << >>), FALSE, TRUE) }

OtherLines ==
    { Raw(Marker, FALSE, TRUE), Raw(Comment, FALSE, TRUE),
      Raw(Blank, FALSE, FALSE), Raw(Text, TRUE, TRUE) }

RawLines == DirectiveLines \cup PlayableLines \cup OtherLines

SeqsUpTo(S, n) == UNION {[1..k -> S] : k \in 0..n}

----------------------------------------------------------------------------
(* Inputs of the generator *)

\* a definition: amp: it contains '&'; head: the text before the first '&'
\* (the whole definition when there is none); rest: the text after it
Definition(amp, head, rest) == [amp |-> amp, head |-> head, rest |-> rest]

\* http://s1/list.m3u and http://mfp2:pw&http://s2/list.m3u
Definitions ==
    { Definition(FALSE, UrlText("http", "s1", "", "/list.m3u"), NoText),
      Definition(TRUE, UrlText("http", "mfp2", "pw", ""), UrlText("http", "s2", "", "/list.m3u")) }

\* what a source can send as one line: response.aiter_lines() has already
\* removed the line ending
WireLines == { Raw(Marker, FALSE, FALSE), Raw(Url("h", "/a", << >>), FALSE, FALSE) }

----------------------------------------------------------------------------
(* One run of rewrite_m3u_links_streaming, driven line by line *)

\* no request is being handled: the function under study was called directly
HIdle ==
    /\ d = [kind |-> "none", segs |-> << >>]
    /\ hpc = "off"
    /\ vidx = 0
    /\ base_url = DefaultBaseUrl
    /\ status = 0

GIdle ==
    /\ playlist_definitions = << >>
    /\ pc = "idle"
    /\ task = << >>
    /\ lines = << >>
    /\ finished = << >>
    /\ results = << >>
    /\ idx = 0
    /\ handled = FALSE
    /\ out = << >>

RInit ==
    /\ m3u_lines \in SeqsUpTo(RawLines, MaxLines)
    /\ api_password \in Passwords
    /\ rpos = 0
    /\ current_ext_headers = << >>
    /\ yielded = << >>
    /\ GIdle
    /\ HIdle

\* the body of the for-loop on the next line of the iterator
RStep(kind) ==
    /\ pc = "idle"
    /\ rpos < Len(m3u_lines)
    /\ LET raw == m3u_lines[rpos + 1]
           r   == ProcessLine(raw, current_ext_headers, api_password)
       IN  /\ kind = (IF raw.c.t \in {"vlc", "exthttp", "url"} THEN raw.c.t ELSE "other")
           /\ yielded' = Append(yielded, r.line)
           /\ current_ext_headers' = r.headers
    /\ rpos' = rpos + 1
    /\ UNCHANGED <<m3u_lines, api_password>>
    /\ UNCHANGED gvars
    /\ UNCHANGED hvars

RewriteVlcOpt == RStep("vlc")
RewriteExtHttp == RStep("exthttp")
RewritePlayable == RStep("url")
RewritePassThrough == RStep("other")

RNext == RewriteVlcOpt \/ RewriteExtHttp \/ RewritePlayable \/ RewritePassThrough

SpecRewrite == RInit /\ [][RNext]_vars

----------------------------------------------------------------------------
(* async_download_m3u_playlist: one coroutine per source *)

\* lines.append(decoded_line + '\n' if decoded_line else '')
Downloaded(wire) == Raw(wire.c, wire.pad, wire.c.t # "blank")

\* the value of a coroutine that returned / the exception of one that raised
Running(st) == [st |-> st, exc |-> "", lines |-> << >>]
Returned(ls) == [st |-> "returned", exc |-> "", lines |-> ls]
Raised(exc) == [st |-> "raised", exc |-> exc, lines |-> << >>]

N == Len(playlist_definitions)

\* the playlist URL of a definition ("Prepare URLs")
PlaylistUrl(definition) == IF definition.amp THEN definition.rest ELSE definition.head

playlist_urls == [i \in 1..N |-> PlaylistUrl(playlist_definitions[i])]

\* an except clause that hands the lines received so far on with the exception
PartialOutcome(ls, exc) == [st |-> "raised", exc |-> exc, lines |-> ls]

\* the except clauses raise: the exception is all that leaves the coroutine,
\* the local list ls is not part of it
FailureOutcome(ls, exc) == Raised(exc)

\* the coroutine stops and its outcome is kept; lines[i] stays as the
\* record of what the coroutine had received
Finish(i, outcome) ==
    /\ task' = [task EXCEPT ![i] = outcome]
    /\ UNCHANGED lines
    /\ finished' = Append(finished, i)

\* the coroutines run on the event loop from the moment gather wraps them
\* in tasks
FetchesRun == pc \in {"gather", "cancelled"} /\ task # << >>

\* client.stream(...) entered and raise_for_status() passed
FetchConnect(i) ==
    /\ FetchesRun /\ task[i].st = "connecting"
    /\ task' = [task EXCEPT ![i] = Running("streaming")]
    /\ UNCHANGED <<playlist_definitions, pc, lines, finished, results, idx, handled, out>>
    /\ UNCHANGED rvars
    /\ UNCHANGED hvars

\* httpx.ConnectError: re-raised as HTTPException(502)
FetchConnectError(i) ==
    /\ FetchesRun /\ task[i].st = "connecting"
    /\ Finish(i, FailureOutcome(lines[i], "502"))
    /\ UNCHANGED <<playlist_definitions, pc, results, idx, handled, out>>
    /\ UNCHANGED rvars
    /\ UNCHANGED hvars

\* any other exception (HTTP status, timeout, read error): re-raised as is,
\* before the first line or after some lines were appended
FetchError(i) ==
    /\ FetchesRun /\ task[i].st \in {"connecting", "streaming"}
    /\ Finish(i, FailureOutcome(lines[i], "error"))
    /\ UNCHANGED <<playlist_definitions, pc, results, idx, handled, out>>
    /\ UNCHANGED rvars
    /\ UNCHANGED hvars

\* one iteration of "async for line_bytes in response.aiter_lines()"
FetchLine(i) ==
    /\ FetchesRun /\ task[i].st = "streaming"
    /\ Len(lines[i]) < MaxRemoteLines
    /\ \E wire \in WireLines : lines' = [lines EXCEPT ![i] = Append(@, Downloaded(wire))]
    /\ UNCHANGED <<playlist_definitions, pc, task, finished, results, idx, handled, out>>
    /\ UNCHANGED rvars
    /\ UNCHANGED hvars

\* the stream ended: return lines
FetchReturn(i) ==
    /\ FetchesRun /\ task[i].st = "streaming"
    /\ Finish(i, Returned(lines[i]))
    /\ UNCHANGED <<playlist_definitions, pc, results, idx, handled, out>>
    /\ UNCHANGED rvars
    /\ UNCHANGED hvars

----------------------------------------------------------------------------
(* async_generate_combined_playlist *)

\* isinstance(lines, Exception)
IsException(r) == r.st = "raised"

IsDone(t) == t.st \in {"returned", "raised"}

\* a wait that ends with the first coroutine that finishes
AnyDone(t) == \E i \in 1..Len(t) : IsDone(t[i])

\* gather is done when every one of its awaitables is done
AllDone(t) == \A i \in 1..Len(t) : IsDone(t[i])

\* a gather that hands the outcomes back in completion order
GatherResultsAsCompleted(t, order) == [i \in 1..Len(order) |-> t[order[i]]]

\* asyncio.gather(*coroutines, return_exceptions=True): the outcomes in the
\* order of the arguments
GatherResults(t, order) == [i \in 1..Len(t) |-> t[i]]

\* list(rewrite_m3u_links_streaming(...)) inside asyncio.to_thread:
\* rewrite_m3u_links_streaming is declared "async def" and contains yield,
\* so the call returns an async generator, and list() of an async generator
\* raises TypeError ('async_generator' object is not iterable) whatever the
\* lines are.  The exception leaves through the await.
RECURSIVE RewriteAll(_, _, _)
\* the lines the generator body yields for playlist_lines, in order
RewriteAll(playlist_lines, h, pw) ==
    IF playlist_lines = << >> THEN << >>
    ELSE LET r == ProcessLine(Head(playlist_lines), h, pw)
         IN  <<r.line>> \o RewriteAll(Tail(playlist_lines), r.headers, pw)

ToThreadList(playlist_lines, pw) == Raised("TypeError")

\* line.strip().startswith('#EXTM3U')
IsExtM3U(line) == line.route = "" /\ line.body.t = "marker"

\* f"# ERROR processing playlist {playlist_urls[idx]}: {str(lines)}\n"
ErrorLine(url, exc) ==
    Emitted("", [t |-> "error", url |-> url, exc |-> exc], FALSE, << >>, FALSE, TRUE)

\* a merge without the two statements after the loop
FlagKept(had_lines, flag) == flag

\* if current_playlist_had_lines and not first_playlist_header_handled:
\*     first_playlist_header_handled = True
FlagAfterSegment(had_lines, flag) == IF had_lines /\ ~flag THEN TRUE ELSE flag

RECURSIVE MergeLoop(_, _, _)
\* the "for line in rewritten_lines_iter" loop with the two statements after
\* it: st = [handled, emitted], first: first_line_of_this_segment
MergeLoop(rewritten, st, first) ==
    IF rewritten = << >>
    THEN [st EXCEPT !.handled = FlagAfterSegment(~first, st.handled)]
    ELSE LET line == Head(rewritten)
             is_extm3u_line == IsExtM3U(line)
             st2 == IF ~st.handled
                    THEN [handled |-> is_extm3u_line, emitted |-> Append(st.emitted, line)]
                    ELSE IF first /\ is_extm3u_line THEN st
                    ELSE [st EXCEPT !.emitted = Append(@, line)]
         IN  MergeLoop(Tail(rewritten), st2, FALSE)

GInit ==
    /\ m3u_lines = << >>
    /\ api_password \in Passwords
    /\ rpos = 0
    /\ current_ext_headers = << >>
    /\ yielded = << >>
    /\ \E n \in 1..MaxSources : playlist_definitions \in [1..n -> Definitions]
    /\ pc = "start"
    /\ task = << >>
    /\ lines = << >>
    /\ finished = << >>
    /\ results = << >>
    /\ idx = 0
    /\ handled = FALSE
    /\ out = << >>
    /\ HIdle

\* asyncio.gather is awaited: one coroutine per playlist URL starts
GatherStart ==
    /\ pc = "start"
    /\ pc' = "gather"
    /\ task' = [i \in 1..N |-> Running("connecting")]
    /\ lines' = [i \in 1..N |-> << >>]
    /\ UNCHANGED <<playlist_definitions, finished, results, idx, handled, out>>
    /\ UNCHANGED rvars
    /\ UNCHANGED hvars

\* every coroutine has finished: gather returns
GatherReturn ==
    /\ pc = "gather"
    /\ AllDone(task)
    /\ results' = GatherResults(task, finished)
    /\ pc' = "merge"
    /\ idx' = 1
    /\ UNCHANGED <<playlist_definitions, task, lines, finished, handled, out>>
    /\ UNCHANGED rvars
    /\ UNCHANGED hvars

\* first_playlist_header_handled is kept in the variable handled
\* a result that is an exception: one comment line, then the next source
MergeError ==
    /\ pc = "merge" /\ idx <= N
    /\ IsException(results[idx])
    /\ out' = Append(out, ErrorLine(playlist_urls[idx], results[idx].exc))
    /\ idx' = idx + 1
    /\ UNCHANGED <<playlist_definitions, pc, task, lines, finished, results, handled>>
    /\ UNCHANGED rvars
    /\ UNCHANGED hvars

\* a result that is a list of lines: rewrite it and merge it
MergeLines ==
    /\ pc = "merge" /\ idx <= N
    /\ ~IsException(results[idx])
    /\ LET rewritten == ToThreadList(results[idx].lines, api_password)
       IN  IF ~IsException(rewritten)
           THEN LET st == MergeLoop(rewritten.lines, [handled |-> handled, emitted |-> out], TRUE)
                IN  /\ out' = st.emitted
                    /\ handled' = st.handled
                    /\ idx' = idx + 1
                    /\ pc' = pc
           ELSE /\ pc' = "raised"
                /\ UNCHANGED <<out, handled, idx>>
    /\ UNCHANGED <<playlist_definitions, task, lines, finished, results>>
    /\ UNCHANGED rvars
    /\ UNCHANGED hvars

\* the for-loop over results is exhausted: the generator ends
MergeEnd ==
    /\ pc = "merge" /\ idx > N
    /\ pc' = "done"
    /\ UNCHANGED <<playlist_definitions, task, lines, finished, results, idx, out, handled>>
    /\ UNCHANGED rvars
    /\ UNCHANGED hvars

Next ==
    \/ GatherStart
    \/ \E i \in 1..N : FetchConnect(i)
    \/ \E i \in 1..N : FetchConnectError(i)
    \/ \E i \in 1..N : FetchError(i)
    \/ \E i \in 1..N : FetchLine(i)
    \/ \E i \in 1..N : FetchReturn(i)
    \/ GatherReturn
    \/ MergeError
    \/ MergeLines
    \/ MergeEnd

Spec == GInit /\ [][Next]_vars

\* the generator has stopped, normally or with an exception
Terminated == pc \in {"done", "raised"}

----------------------------------------------------------------------------
(* The request is cancelled: the client went away and the task that iterates
   the generator is cancelled *)

\* a cancellation that does not reach the downloads
CancelNothing(t) == t

\* cancelling the gather future cancels every awaitable of it that is not
\* done: CancelledError is thrown into the coroutine where it waits
CancelChildren(t) ==
    [i \in 1..Len(t) |-> IF IsDone(t[i]) THEN t[i] ELSE Running("cancelling")]

\* CancelledError reaches the generator at its await, or closes it at a yield
Cancel ==
    /\ pc \in {"start", "gather", "merge"}
    /\ pc' = "cancelled"
    /\ task' = CancelChildren(task)
    /\ UNCHANGED <<playlist_definitions, lines, finished, results, idx, handled, out>>
    /\ UNCHANGED rvars
    /\ UNCHANGED hvars

\* CancelledError is not an Exception: it passes both except clauses and
\* leaves the coroutine through the two "async with" blocks
FetchCancelled(i) ==
    /\ i <= Len(task) /\ task[i].st = "cancelling"
    /\ Finish(i, [st |-> "cancelled", exc |-> "CancelledError", lines |-> << >>])
    /\ UNCHANGED <<playlist_definitions, pc, results, idx, handled, out>>
    /\ UNCHANGED rvars
    /\ UNCHANGED hvars

CNext ==
    \/ Next
    \/ Cancel
    \/ \E i \in 1..N : FetchCancelled(i)

\* the event loop resumes every task that has an exception to receive
SpecCancel ==
    GInit /\ [][CNext]_vars /\ \A i \in 1..MaxSources : WF_vars(FetchCancelled(i))

----------------------------------------------------------------------------
(* The merge loop on its own: lines 173-200 applied to given results, the
   body of rewrite_m3u_links_streaming supplying the rewritten lines that
   line 183 is written to obtain *)

\* a rewriter that starts from the dict the previous call left
InitialHeadersShared(prev) == prev

\* current_ext_headers: Dict[str, str] = {} at the top of each call
InitialHeaders(prev) == << >>

RECURSIVE RunHeaders(_, _, _)
\* current_ext_headers when the generator body has gone through playlist_lines
RunHeaders(playlist_lines, h, pw) ==
    IF playlist_lines = << >> THEN h
    ELSE RunHeaders(Tail(playlist_lines), ProcessLine(Head(playlist_lines), h, pw).headers, pw)

\* the lines of the downloaded lists: #EXTM3U, #EXTVLCOPT:http-header=B: 2
\* and http://h/a
MergeInputLines ==
    { Downloaded(Raw(Marker, FALSE, FALSE)),
      Downloaded(Raw(Vlc(TRUE, "http-header", TRUE, "B", "2"), FALSE, FALSE)),
      Downloaded(Raw(Url("h", "/a", << >>), FALSE, FALSE)) }

\* what gather hands back for one source
MergeOutcomes ==
    {Returned(ls) : ls \in SeqsUpTo(MergeInputLines, MaxMergeLines)} \cup {Raised("502")}

MInit ==
    /\ m3u_lines = << >>
    /\ api_password \in Passwords
    /\ rpos = 0
    /\ current_ext_headers = << >>
    /\ yielded = << >>
    /\ \E n \in 1..MaxSources :
          /\ playlist_definitions = [i \in 1..n |-> Definition(FALSE, UrlText("http", "s1", "", "/list.m3u"), NoText)]
          /\ results \in [1..n -> MergeOutcomes]
          /\ finished = [i \in 1..n |-> i]
    /\ task = results
    /\ lines = [i \in 1..Len(results) |-> results[i].lines]
    /\ pc = "merge"
    /\ idx = 1
    /\ handled = FALSE
    /\ out = << >>
    /\ HIdle

\* a result that is a list of lines, rewritten by the generator body and
\* merged; current_ext_headers keeps the dict as that call left it
MergeRewritten ==
    /\ pc = "merge" /\ idx <= N
    /\ ~IsException(results[idx])
    /\ LET h0 == InitialHeaders(current_ext_headers)
           rewritten == RewriteAll(results[idx].lines, h0, api_password)
           st == MergeLoop(rewritten, [handled |-> handled, emitted |-> out], TRUE)
       IN  /\ out' = st.emitted
           /\ handled' = st.handled
           /\ current_ext_headers' = RunHeaders(results[idx].lines, h0, api_password)
    /\ idx' = idx + 1
    /\ UNCHANGED <<playlist_definitions, pc, task, lines, finished, results>>
    /\ UNCHANGED <<m3u_lines, api_password, rpos, yielded>>
    /\ UNCHANGED hvars

MNext == MergeError \/ MergeRewritten \/ MergeEnd

SpecMerge == MInit /\ [][MNext]_vars

----------------------------------------------------------------------------
(* proxy_handler *)

\* one ';'-separated piece of d: pad: it has blanks around it
Segment(pad, def) == [pad |-> pad, def |-> def]

\* def_.strip()
Strip(seg) == seg.def

\* definitions that do not pass the validation: novalid, http:///x, and
\* http://a/l?a=1&b=2, which is cut at its own '&'
OtherDefinitions ==
    { Definition(FALSE, UrlText("", "", "", "novalid"), NoText),
      Definition(FALSE, UrlText("http", "", "", "/x"), NoText),
      Definition(TRUE, UrlText("http", "a", "", "/l?a=1"), UrlText("", "", "", "b=2")) }

BlankDefinition == Definition(FALSE, NoText, NoText)

\* the pieces a request is made of: the plain definition and the blank one
\* come with blanks around them
Segments ==
    {Segment(~def.amp /\ def.head.host # "", def) : def \in Definitions \cup OtherDefinitions}
        \cup {Segment(TRUE, BlankDefinition)}

\* the values of the query parameter d: '', blanks only, more than 10000
\* characters, or a ';'-separated list
Requests ==
    { [kind |-> k, segs |-> << >>] : k \in {"missing", "blank", "long"} }
        \cup { [kind |-> "list", segs |-> q] : q \in SeqsUpTo(Segments, MaxSources) \ {<< >>} }

\* [def_.strip() for def_ in d.split(';') if def_.strip()]
SplitDefinitions(q) ==
    LET kept == SelectSeq(q.segs, LAMBDA seg : Strip(seg) # BlankDefinition)
    IN  [i \in 1..Len(kept) |-> Strip(kept[i])]

\* urllib.parse.urlparse: the scheme is what stands before the first ':',
\* the hostname needs the "//" that follows a scheme
urlparse(u) ==
    [scheme   |-> IF u.scheme # "" THEN u.scheme ELSE IF u.pw # "" THEN u.host ELSE "",
     hostname |-> IF u.scheme # "" THEN u.host ELSE ""]

\* a validation that looks at the scheme only
UrlIsValidSchemeOnly(u) == urlparse(u).scheme # ""

\* not (not parsed.scheme or not parsed.hostname)
UrlIsValid(u) == urlparse(u).scheme # "" /\ urlparse(u).hostname # ""

\* ':' in text
HasColon(u) == u.scheme # "" \/ u.pw # ""

\* text.startswith('http')
StartsWithHttp(u) ==
    LET first == IF u.scheme # "" THEN u.scheme ELSE IF u.host # "" THEN u.host ELSE u.path
    IN  first \in {"http", "https"}

\* text.rsplit(':', 1)[0], for a text with a ':'
RsplitColon(u) ==
    IF u.pw # "" THEN UrlText(u.scheme, u.host, "", "") ELSE UrlText("", "", "", u.scheme)

\* "Build base_url with correct scheme" and "Extract base_url from first
\* definition if present"
BaseUrlFor(defs) ==
    IF defs # << >> /\ defs[1].amp
    THEN LET parts0 == defs[1].head
         IN  IF HasColon(parts0) /\ ~StartsWithHttp(parts0)
             THEN LET base_url_part == RsplitColon(parts0)
                  IN  IF StartsWithHttp(base_url_part) THEN base_url_part ELSE DefaultBaseUrl
             ELSE DefaultBaseUrl
    ELSE DefaultBaseUrl

HInit ==
    /\ m3u_lines = << >>
    /\ api_password \in Passwords
    /\ rpos = 0
    /\ current_ext_headers = << >>
    /\ yielded = << >>
    /\ GIdle
    /\ d \in Requests
    /\ hpc = "check"
    /\ vidx = 0
    /\ base_url = NoText
    /\ status = 0

\* raise HTTPException(status_code=400, ...)
Reject ==
    /\ status' = 400
    /\ hpc' = "rejected"
    /\ UNCHANGED <<d, vidx, base_url>>
    /\ UNCHANGED gvars
    /\ UNCHANGED rvars

\* d is missing, blank, too long, or has no definition in it
HRejectQuery ==
    /\ hpc = "check"
    /\ d.kind # "list" \/ SplitDefinitions(d) = << >>
    /\ Reject

\* d is split into its definitions
HSplit ==
    /\ hpc = "check"
    /\ d.kind = "list" /\ SplitDefinitions(d) # << >>
    /\ playlist_definitions' = SplitDefinitions(d)
    /\ hpc' = "validate"
    /\ vidx' = 1
    /\ UNCHANGED <<d, base_url, status>>
    /\ UNCHANGED <<pc, task, lines, finished, results, idx, handled, out>>
    /\ UNCHANGED rvars

\* one iteration of the validation loop: the URL has a scheme and a host
HValidate ==
    /\ hpc = "validate" /\ vidx <= N
    /\ UrlIsValid(PlaylistUrl(playlist_definitions[vidx]))
    /\ vidx' = vidx + 1
    /\ UNCHANGED <<d, hpc, base_url, status>>
    /\ UNCHANGED gvars
    /\ UNCHANGED rvars

\* one iteration of the validation loop: "Invalid URL in definition"
HRejectUrl ==
    /\ hpc = "validate" /\ vidx <= N
    /\ ~UrlIsValid(PlaylistUrl(playlist_definitions[vidx]))
    /\ Reject

\* the validation loop is through: the base URL is built
HBaseUrl ==
    /\ hpc = "validate" /\ vidx > N
    /\ base_url' = BaseUrlFor(playlist_definitions)
    /\ hpc' = "respond"
    /\ UNCHANGED <<d, vidx, status>>
    /\ UNCHANGED gvars
    /\ UNCHANGED rvars

\* return StreamingResponse(generate_response(), ...): the response starts
\* and the generator is iterated
HRespond ==
    /\ hpc = "respond"
    /\ status' = 200
    /\ hpc' = "streaming"
    /\ pc' = "start"
    /\ UNCHANGED <<d, vidx, base_url>>
    /\ UNCHANGED <<playlist_definitions, task, lines, finished, results, idx, handled, out>>
    /\ UNCHANGED rvars

HNext ==
    \/ HRejectQuery
    \/ HSplit
    \/ HValidate
    \/ HRejectUrl
    \/ HBaseUrl
    \/ HRespond
    \/ Next

SpecHandler == HInit /\ [][HNext]_vars

----------------------------------------------------------------------------
(* Properties of the combined output *)

MarkerCount(o) == Cardinality({p \in 1..Len(o) : IsExtM3U(o[p])})

AllFailed == \A i \in 1..N : IsException(results[i])

\* C1: when the generator has produced the whole response for a request
\* with one or more sources, the marker line #EXTM3U occurs exactly once in
\* the output and is its first line.
C1_MarkerOnceAndFirst ==
    pc = "done" =>
        /\ Len(out) >= 1
        /\ IsExtM3U(out[1])
        /\ MarkerCount(out) = 1

\* C2: when every source's fetch has failed, the finished output still
\* contains exactly one marker line (a synthetic one).
C2_FallbackMarkerWhenAllFail ==
    (pc = "done" /\ AllFailed) => MarkerCount(out) = 1

RECURSIVE IsCombination(_, _)
\* o is, from source i on, the concatenation in request order of one error
\* line per failed source and of every rewritten line of each successful
\* source, a leading marker of a segment being the only line that may be
\* left out
IsCombination(o, i) ==
    IF i > N THEN o = << >>
    ELSE IF IsException(results[i])
    THEN /\ Len(o) >= 1
         /\ o[1] = ErrorLine(playlist_urls[i], results[i].exc)
         /\ IsCombination(Tail(o), i + 1)
    ELSE LET r == RewriteAll(results[i].lines, << >>, api_password)
             StartsWith(seg) == /\ Len(o) >= Len(seg)
                                /\ SubSeq(o, 1, Len(seg)) = seg
                                /\ IsCombination(SubSeq(o, Len(seg) + 1, Len(o)), i + 1)
         IN  \/ StartsWith(r)
             \/ /\ r # << >>
                /\ IsExtM3U(r[1])
                /\ StartsWith(Tail(r))

\* C3: the response is never aborted, and the output is, in request order,
\* every successful source's rewritten lines (less only a deduplicated
\* leading marker) and one error comment per failed source.
C3_PartialFailureIsolation ==
    Terminated => (pc = "done" /\ IsCombination(out, 1))

\* C4: whatever the order in which the downloads complete, the output so far
\* is made of the segments of the sources 1, 2, ... in request order: its
\* p-th segment belongs to source p and is decided by that source's own
\* outcome; the merge stops at the first source it cannot merge.
C4_OutputInRequestOrder ==
    pc \in {"merge", "done", "raised"} =>
        /\ Len(out) <= N
        /\ \A p \in 1..Len(out) :
              /\ task[p].st = "raised"
              /\ out[p] = ErrorLine(playlist_urls[p], task[p].exc)
        /\ pc = "done" => Len(out) = N
        /\ pc = "raised" => (Len(out) < N /\ task[Len(out) + 1].st = "returned")

\* a later source finished before an earlier one, and the output holds the
\* segments of both
C4_Witness ==
    /\ pc = "done"
    /\ N = 2
    /\ finished = <<2, 1>>
    /\ Len(out) = 2
    /\ out[1] # out[2]

\* C7: for a single source whose fetch succeeded, the output has as many
\* lines as the source had, the i-th being the rewriting of the i-th.
C7_SingleSourceLineCount ==
    (Terminated /\ N = 1 /\ ~IsException(results[1])) =>
        /\ Len(out) = Len(results[1].lines)
        /\ out = RewriteAll(results[1].lines, << >>, api_password)

----------------------------------------------------------------------------
(* Properties of the rewriter *)

Line(p) == m3u_lines[p].c

ParamsOfKind(line, kind) == SelectSeq(line.params, LAMBDA x : x.kind = kind)

\* the last playable line before position p, 0 when there is none
LastPlayableBefore(p) ==
    IF \E q \in 1..(p - 1) : IsPlayable(Line(q))
    THEN CHOOSE q \in 1..(p - 1) :
            /\ IsPlayable(Line(q))
            /\ \A q2 \in (q + 1)..(p - 1) : ~IsPlayable(Line(q2))
    ELSE 0

RECURSIVE DeclaredBy(_, _, _)
\* the headers declared by the lines from..to (none of them playable),
\* starting from the dict h
DeclaredBy(from, to, h) ==
    IF from > to THEN h
    ELSE DeclaredBy(from + 1, to, ProcessLine(m3u_lines[from], h, "").headers)

\* C5: a playable entry carries exactly the headers declared by the
\* directive lines between the previous playable entry and itself; once an
\* entry is emitted the pending set is empty, so an entry that directly
\* follows another entry carries no h_ parameter.
C5_HeaderOneShot ==
    \A p \in 1..rpos :
        IsPlayable(Line(p)) =>
            /\ ParamsOfKind(yielded[p], "h_")
                  = HeaderParams(DeclaredBy(LastPlayableBefore(p) + 1, p - 1, << >>))
            /\ p = rpos => current_ext_headers = << >>
            /\ (p >= 2 /\ IsPlayable(Line(p - 1))) => ParamsOfKind(yielded[p], "h_") = << >>

\* a directive, then two entries in a row: the first one got the header,
\* the second one did not
C5_Witness ==
    /\ rpos = 3
    /\ Line(1).t = "vlc"
    /\ IsPlayable(Line(2))
    /\ IsPlayable(Line(3))
    /\ ParamsOfKind(yielded[2], "h_") # << >>
    /\ ParamsOfKind(yielded[3], "h_") = << >>
    /\ current_ext_headers = << >>

\* a directive whose payload does not parse
FailsToParse(c) ==
    \/ c.t = "vlc" /\ ~c.eq
    \/ c.t = "exthttp" /\ c.json # "flat"

\* C6: right after a directive line that fails to parse, the pending set is
\* empty and the line itself has been emitted unchanged.
C6_ParseFailureResets ==
    (rpos >= 1 /\ FailsToParse(Line(rpos))) =>
        /\ current_ext_headers = << >>
        /\ yielded[rpos] = Verbatim(m3u_lines[rpos])

\* C8: a playable line containing pluto.tv is emitted unmodified.
C8_ExcludedProviderUnmodified ==
    \A p \in 1..rpos :
        (IsPlayable(Line(p)) /\ Contains(Line(p), "pluto.tv")) =>
            yielded[p] = Verbatim(m3u_lines[p])

IsMpdEntry(p) == IsPlayable(Line(p)) /\ yielded[p].route = "/proxy/mpd/manifest.m3u8"

\* the values of every occurrence of name in a query, in order
Occurrences(query, name) ==
    LET sel == SelectSeq(query, LAMBDA e : e.k = name)
    IN  [i \in 1..Len(sel) |-> sel[i].v]

ParamValues(line, kind) ==
    LET sel == ParamsOfKind(line, kind)
    IN  [i \in 1..Len(sel) |-> sel[i].value]

NonBlank(vs) == SelectSeq(vs, LAMBDA v : v # "")

FirstOf(vs) == IF vs = << >> THEN << >> ELSE <<vs[1]>>

\* C9 as stated: every occurrence of key_id and of key in the source query
\* is a parameter of its own on the rewritten URL, in order, and none is
\* left in the inner URL.
C9_AllKeyOccurrencesKept ==
    \A p \in 1..rpos :
        IsMpdEntry(p) =>
            /\ ParamValues(yielded[p], "key_id") = Occurrences(Line(p).query, "key_id")
            /\ ParamValues(yielded[p], "key") = Occurrences(Line(p).query, "key")
            /\ Occurrences(yielded[p].body.query, "key_id") = << >>
            /\ Occurrences(yielded[p].body.query, "key") = << >>

\* C9 amended: only the first non-blank occurrence of key_id and the first
\* non-blank occurrence of key become parameters of the rewritten URL,
\* key_id before key and ahead of the h_ and api_password parameters; no
\* key_id or key is left in the inner URL.
C9_FirstKeyOccurrenceKept ==
    \A p \in 1..rpos :
        IsMpdEntry(p) =>
            LET kid == FirstOf(NonBlank(Occurrences(Line(p).query, "key_id")))
                k   == FirstOf(NonBlank(Occurrences(Line(p).query, "key")))
                n   == Len(kid) + Len(k)
            IN  /\ ParamValues(yielded[p], "key_id") = kid
                /\ ParamValues(yielded[p], "key") = k
                /\ Len(yielded[p].params) >= n
                /\ [i \in 1..n |-> yielded[p].params[i].value] = kid \o k
                /\ Occurrences(yielded[p].body.query, "key_id") = << >>
                /\ Occurrences(yielded[p].body.query, "key") = << >>

\* a .mpd entry whose query names key_id twice and key once
C9_Witness ==
    /\ rpos >= 1
    /\ IsMpdEntry(rpos)
    /\ Len(Occurrences(Line(rpos).query, "key_id")) = 2
    /\ ParamValues(yielded[rpos], "key_id") = <<"aa">>
    /\ ParamValues(yielded[rpos], "key") = <<"cc">>
    /\ yielded[rpos].body.query = <<Pair("foo", "1")>>

SetsHeader(c) ==
    c.t = "vlc" /\ c.eq /\ (c.key = "http-header" \/ HasHttpPrefix(c.key))

\* the header name an http-header / http-* option sets
HeaderNameOf(c) == IF c.key = "http-header" /\ c.colon THEN c.hname ELSE StripHttp(c.key)

ExtHttpA == ExtHttp("flat", <<Pair("A", "1")>>)
VlcB == Vlc(TRUE, "http-header", TRUE, "B", "2")

\* C10: right after an #EXTHTTP directive that parses, the pending set is
\* exactly its object; an http-header / http-* #EXTVLCOPT directive sets one
\* header and keeps every other pending header; #EXTHTTP {A} then
\* #EXTVLCOPT B leaves {A, B}, the reverse order leaves {A}.
C10_ReplaceVersusUpsert ==
    /\ [](/\ (rpos >= 1 /\ Line(rpos).t = "exthttp" /\ Line(rpos).json = "flat")
                => current_ext_headers = Line(rpos).obj
          /\ (rpos = 2 /\ Line(1) = ExtHttpA /\ Line(2) = VlcB)
                => AsSet(current_ext_headers) = {Pair("A", "1"), Pair("B", "2")}
          /\ (rpos = 2 /\ Line(1) = VlcB /\ Line(2) = ExtHttpA)
                => AsSet(current_ext_headers) = {Pair("A", "1")})
    /\ [][(rpos' = rpos + 1 /\ SetsHeader(Line(rpos')))
            => LET c == Line(rpos')
                   name == HeaderNameOf(c)
               IN  /\ Pair(name, c.val) \in AsSet(current_ext_headers')
                   /\ {e \in AsSet(current_ext_headers') : e.k # name}
                        = {e \in AsSet(current_ext_headers) : e.k # name}
                   /\ Len(current_ext_headers') = Cardinality(AsSet(current_ext_headers'))]_vars

\* #EXTHTTP {A} then #EXTVLCOPT http-header=B: both are pending
C10_Witness ==
    /\ rpos = 2
    /\ Line(1) = ExtHttpA
    /\ Line(2) = VlcB
    /\ current_ext_headers = <<Pair("A", "1"), Pair("B", "2")>>

MpdRoute == "/proxy/mpd/manifest.m3u8"
HlsRoute == "/proxy/hls/manifest.m3u8"
ExtractorRoute == "/extractor/video"

\* the source URL without its key_id and key parameters
WithoutDrm(c) == Url(c.host, c.path, SelectSeq(c.query, LAMBDA e : e.k \notin {"key_id", "key"}))

\* C12: for every proxied entry the d parameter is percent-encoded and
\* decodes to the source URL (on the .mpd route: to the source URL less its
\* key_id and key parameters, everything else as it was).
C12_DecodedDIsSource ==
    \A p \in 1..rpos :
        (IsPlayable(Line(p)) /\ yielded[p].route # "") =>
            /\ yielded[p].quoted
            /\ yielded[p].body = (IF yielded[p].route = MpdRoute
                                  THEN WithoutDrm(Line(p)) ELSE Line(p))

\* the rules in the order they are to be tried
RouteRules ==
    << <<"pluto.tv", "">>, <<"vavoo.to", HlsRoute>>, <<"vixsrc.to", ExtractorRoute>>,
       <<".m3u8", HlsRoute>>, <<".mpd", MpdRoute>>, <<".php", HlsRoute>> >>

FirstMatch(c) ==
    LET hits == {i \in 1..Len(RouteRules) : Contains(c, RouteRules[i][1])}
    IN  IF hits = {} THEN HlsRoute
        ELSE RouteRules[CHOOSE i \in hits : \A j \in hits : i <= j][2]

\* C18: every playable line gets the route of the first rule it matches in
\* the order pluto.tv, vavoo.to, vixsrc.to, .m3u8, .mpd, .php, default; off
\* the .mpd route the URL is carried whole and no key is extracted.
C18_FirstMatchWins ==
    \A p \in 1..rpos :
        IsPlayable(Line(p)) =>
            /\ yielded[p].route = FirstMatch(Line(p))
            /\ yielded[p].route # MpdRoute =>
                  /\ yielded[p].body = Line(p)
                  /\ ParamsOfKind(yielded[p], "key_id") = << >>
                  /\ ParamsOfKind(yielded[p], "key") = << >>

\* vixsrc.to with .mpd went to the extractor, .m3u8 with .mpd and a key
\* went to HLS with the key left inside
C18_Witness ==
    /\ rpos = 2
    /\ IsPlayable(Line(1)) /\ IsPlayable(Line(2))
    /\ Contains(Line(1), "vixsrc.to") /\ Contains(Line(1), ".mpd")
    /\ yielded[1].route = ExtractorRoute
    /\ Contains(Line(2), ".m3u8") /\ Contains(Line(2), ".mpd")
    /\ Occurrences(Line(2).query, "key") # << >>
    /\ yielded[2].route = HlsRoute
    /\ ParamsOfKind(yielded[2], "key") = << >>

\* C15: a download has two outcomes only - returned with every line it
\* received, or raised with no lines at all - and a source whose download
\* raised puts one error comment, and none of the lines it had received,
\* into the output.
C15_AllOrNothing ==
    /\ [](\A i \in 1..Len(task) :
            /\ task[i].st = "raised" => (task[i].lines = << >> /\ task[i].exc # "")
            /\ task[i].st = "returned" => (task[i].lines = lines[i] /\ task[i].exc = ""))
    /\ [][(pc = "merge" /\ idx <= N /\ results[idx].st = "raised") =>
             out' = Append(out, [route |-> "", quoted |-> FALSE, params |-> << >>,
                                 pad |-> FALSE, nl |-> TRUE,
                                 body |-> [t |-> "error", url |-> playlist_urls[idx],
                                           exc |-> results[idx].exc]])]_vars

\* a download that failed after it had received a line, merged
C15_Witness ==
    /\ pc = "done" /\ N = 1
    /\ task[1].st = "raised" /\ lines[1] # << >>
    /\ Len(out) = 1 /\ out[1].body.t = "error"

\* C20: no line is emitted while any download is still running: the output
\* stays empty until every download has returned or raised.
C20_NoOutputBeforeAllFetched ==
    /\ out # << >> => \A i \in 1..N : task[i].st \in {"returned", "raised"}
    /\ pc \in {"start", "gather"} => out = << >>

\* the second source finished first and its comment came out only after the
\* first source had finished too
C20_Witness ==
    /\ N = 2 /\ Len(finished) = 2 /\ finished[1] = 2
    /\ task[2].st = "raised"
    /\ out # << >>

\* the URL after the first '&' of a definition, the definition itself when
\* it has none
UrlOf(def) == IF def.amp THEN def.rest ELSE def.head

NonBlankSegments == {i \in 1..Len(d.segs) : d.segs[i].def # BlankDefinition}

\* d is not empty after trimming and each of its definitions names a URL
\* with a scheme and a host
RequestIsValid ==
    /\ d.kind = "list"
    /\ NonBlankSegments # {}
    /\ \A i \in NonBlankSegments :
          LET u == UrlOf(d.segs[i].def) IN u.scheme # "" /\ u.host # ""

\* C13: a request with an empty d or with any definition, first or later,
\* whose URL lacks a scheme or a host is answered with a client error and
\* never starts a download; downloads exist only after every definition has
\* passed the validation.
C13_FailFastValidation ==
    /\ ~RequestIsValid => (status \in {0, 400} /\ pc = "idle" /\ task = << >>
                           /\ hpc \in {"check", "validate", "rejected"})
    /\ hpc = "rejected" => status = 400
    /\ (pc # "idle" \/ task # << >>) => (RequestIsValid /\ vidx = N + 1 /\ status = 200)

\* a request whose first definition is valid and whose second has a scheme
\* but no host, rejected with nothing started
C13_Witness ==
    /\ hpc = "rejected" /\ status = 400
    /\ Len(d.segs) = 2
    /\ UrlOf(d.segs[1].def).scheme # "" /\ UrlOf(d.segs[1].def).host # ""
    /\ UrlOf(d.segs[2].def).scheme # "" /\ UrlOf(d.segs[2].def).host = ""
    /\ vidx = 2 /\ task = << >> /\ pc = "idle"

\* the first definition has the form scheme://host:password&url
FirstHasOverride ==
    /\ playlist_definitions # << >>
    /\ playlist_definitions[1].amp
    /\ playlist_definitions[1].head.scheme # ""
    /\ playlist_definitions[1].head.host # ""
    /\ playlist_definitions[1].head.pw # ""

\* C16: once the base URL is built it is the scheme://host of the first
\* definition's override when that definition has the form
\* scheme://host:password&url, and the request-derived default otherwise,
\* whatever the later definitions hold.
C16_BaseUrlOverride ==
    hpc \in {"respond", "streaming"} =>
        base_url = (IF FirstHasOverride
                    THEN [scheme |-> playlist_definitions[1].head.scheme,
                          host |-> playlist_definitions[1].head.host,
                          pw |-> "", path |-> ""]
                    ELSE [scheme |-> "http", host |-> "mfp", pw |-> "", path |-> ""])

\* the lines the generator body makes of the list of source i
RewrittenOf(i) == RewriteAll(results[i].lines, << >>, api_password)

\* source i came back with at least one line
Contributed(i) == results[i].st = "returned" /\ results[i].lines # << >>

DeclaredNames(ls) ==
    {HeaderNameOf(ls[p].c) : p \in {q \in 1..Len(ls) : SetsHeader(ls[q].c)}}
        \cup UNION {{ls[p].c.obj[j].k : j \in 1..Len(ls[p].c.obj)} :
                       p \in {q \in 1..Len(ls) : ls[q].c.t = "exthttp"}}

Ended(i) == task[i].st \in {"returned", "raised", "cancelled"}

\* C14: once the request is cancelled no download goes on with its work,
\* and every download that was in flight at that moment ends.
C14_FetchesEndAfterCancel ==
    /\ [](pc = "cancelled" => \A i \in 1..Len(task) : task[i].st \notin {"connecting", "streaming"})
    /\ (pc = "cancelled") ~> (\A i \in 1..Len(task) : Ended(i))

\* cancelled while one download had returned and the other had received a
\* line: that one ended cancelled
C14_Witness ==
    /\ pc = "cancelled" /\ Len(task) = 2
    /\ \E i, j \in 1..2 :
          /\ task[i].st = "returned"
          /\ task[j].st = "cancelled" /\ lines[j] # << >>

====
